---- MODULE Spec2Model ----
(***************************************************************************)
(* Model of the financial analysis dashboard (src/app.py): the process-wide*)
(* current_data frame, the four request handlers (upload, load_sample,     *)
(* analyze, chat), the FinancialAnalyzer chart and summary builders and    *)
(* the advice generator.                                                    *)
(*                                                                         *)
(* Amounts are integers (currency units).  A Python float that results     *)
(* from a division is kept as an exact reduced fraction [num, den]; NaN is *)
(* the fraction 0/0.  A Python exception is a result [outcome |-> "raised"]*)
(* carrying the exception type.                                            *)
(***************************************************************************)
EXTENDS Integers, Sequences, FiniteSets, TLC

VARIABLES
    current_data,   \* the module global current_data: None or a data frame
    next_id,        \* identity given to the next frame pd.read_csv creates
    request,        \* the request the last handler served
    response,       \* the response the last handler returned
    calls,          \* what each engine operation did during the last request
    inflight        \* the analyze request that is being served step by step

vars == <<current_data, next_id, request, response, calls, inflight>>

---------------------------------------------------------------------------
(* Bounds of the model.                                                    *)

MaxRows == 2

MaxLoads == 2

---------------------------------------------------------------------------
(* Columns of the input table.                                             *)

expense_columns ==
    <<"Rent", "Utilities", "Insurance", "Loan_Payments", "Groceries",
      "Transportation", "Entertainment", "Healthcare", "Shopping",
      "Dining_Out", "Subscriptions">>

ExpenseSet == {expense_columns[i] : i \in DOMAIN expense_columns}

AllColumns ==
    {"Month", "Income", "Savings", "Investments", "Total_Expenses",
     "Net_Income"} \cup ExpenseSet

None == [none |-> TRUE]

---------------------------------------------------------------------------
(* Values.                                                                 *)

Abs(n) == IF n < 0 THEN -n ELSE n

RECURSIVE GCD(_, _)
GCD(a, b) == IF b = 0 THEN a ELSE GCD(b, a % b)

\* The float a / b for b # 0, as a reduced fraction with a positive denominator.
Frac(a, b) ==
    LET g == GCD(Abs(a), Abs(b))
        s == IF b < 0 THEN -1 ELSE 1
    IN  [num |-> (s * a) \div g, den |-> (s * b) \div g]

NaN == [num |-> 0, den |-> 0]

Zero == [num |-> 0, den |-> 1]

Returned(v) == [outcome |-> "returned", value |-> v]

Raised(e) == [outcome |-> "raised", exc |-> e]

NotCalled == [outcome |-> "not_called"]

\* Python's float true division: a zero divisor raises.
TrueDiv(a, b) ==
    IF b = 0 THEN Raised("ZeroDivisionError") ELSE Returned(Frac(a, b))

---------------------------------------------------------------------------
(* Period values: the text of a Month cell and the Timestamp it parses to. *)

StrCell(text) == [kind |-> "str", text |-> text]

Timestamp(y, m) == [kind |-> "ts", year |-> y, month |-> m]

\* pd.to_datetime on one cell: a Timestamp is kept, a text is parsed.
ParseCell(cell) ==
    IF cell.kind = "ts" THEN Returned(cell)
    ELSE CASE cell.text = "2023-12" -> Returned(Timestamp(2023, 12))
           [] cell.text = "2024-01" -> Returned(Timestamp(2024, 1))
           [] cell.text = "2024-02" -> Returned(Timestamp(2024, 2))
           [] OTHER -> Raised("ValueError")

\* Timestamp.strftime('%Y-%m')
strftime(ts) ==
    ToString(ts.year) \o "-"
        \o (IF ts.month < 10 THEN "0" ELSE "") \o ToString(ts.month)

\* Chronological key of a Timestamp.
ChronKey(ts) == ts.year * 12 + ts.month

---------------------------------------------------------------------------
(* Data frames: [id, columns, rows], each row a function on the columns.   *)

HasColumns(df, cs) == cs \subseteq df.columns

\* The cells of one column, in row order.
Column(df, c) == [i \in DOMAIN df.rows |-> df.rows[i][c]]

RECURSIVE SumSeq(_)
SumSeq(s) == IF s = <<>> THEN 0 ELSE Head(s) + SumSeq(Tail(s))

\* Series.sum()
ColumnSum(df, c) == SumSeq(Column(df, c))

\* Series.mean(): NaN over no rows.
ColumnMean(df, c) ==
    IF Len(df.rows) = 0 THEN NaN ELSE Frac(ColumnSum(df, c), Len(df.rows))

---------------------------------------------------------------------------
(* FinancialAnalyzer                                                       *)

\* __init__: keeps the caller's frame (no copy) and assigns the parsed Month
\* column to it.  The result is the frame as the assignment leaves it; an
\* exception leaves the frame as it was.
FinancialAnalyzer(df) ==
    IF df = None THEN Raised("TypeError")
    ELSE IF "Month" \notin df.columns THEN Raised("KeyError")
    ELSE IF \E i \in DOMAIN df.rows :
                ParseCell(df.rows[i]["Month"]).outcome = "raised"
         THEN Raised("ValueError")
    ELSE Returned([df EXCEPT !.rows =
            [i \in DOMAIN df.rows |->
                [df.rows[i] EXCEPT !["Month"] = ParseCell(@).value]]])

\* self.df['Month'].dt.strftime('%Y-%m'), in row order.
x_values(df) == [i \in DOMAIN df.rows |-> strftime(df.rows[i]["Month"])]

get_income_trend(df) ==
    IF ~HasColumns(df, {"Income"}) THEN Raised("KeyError")
    ELSE Returned([x |-> x_values(df), y |-> Column(df, "Income")])

get_expense_breakdown(df) ==
    IF ~HasColumns(df, ExpenseSet) THEN Raised("KeyError")
    ELSE Returned([labels |-> expense_columns,
                   values |-> [k \in DOMAIN expense_columns |->
                                  ColumnSum(df, expense_columns[k])]])

get_monthly_expenses(df) ==
    IF ~HasColumns(df, ExpenseSet) THEN Raised("KeyError")
    ELSE Returned([k \in DOMAIN expense_columns |->
                      [name |-> expense_columns[k],
                       x |-> x_values(df),
                       y |-> Column(df, expense_columns[k])]])

get_savings_analysis(df) ==
    IF ~HasColumns(df, {"Savings", "Investments"}) THEN Raised("KeyError")
    ELSE Returned([x |-> x_values(df),
                   savings |-> Column(df, "Savings"),
                   investments |-> Column(df, "Investments")])

get_net_income_trend(df) ==
    IF ~HasColumns(df, {"Net_Income"}) THEN Raised("KeyError")
    ELSE Returned([x |-> x_values(df), y |-> Column(df, "Net_Income"),
                   hline |-> 0])

\* The rate on net income without the guard on its sign.
actual_savings_rate_unguarded(total_savings, net_income) ==
    TrueDiv(total_savings * 100, net_income)

\* Lines 200-206: the rate on net income.
actual_savings_rate(total_savings, net_income) ==
    IF net_income > 0
    THEN TrueDiv(total_savings * 100, net_income)
    ELSE Returned(Zero)

\* Line 209: the rate on income.
traditional_savings_rate(total_savings, total_income) ==
    IF total_income > 0
    THEN TrueDiv(total_savings * 100, total_income)
    ELSE Returned(Zero)

\* Series.idxmax() over the category totals: the position of the first
\* occurrence of the maximum, scanning from position k with best so far b.
RECURSIVE ArgMaxFrom(_, _, _)
ArgMaxFrom(values, k, b) ==
    IF k > Len(values) THEN b
    ELSE ArgMaxFrom(values, k + 1, IF values[k] > values[b] THEN k ELSE b)

\* The scan keeping the last occurrence of the maximum.
RECURSIVE ArgMaxLastFrom(_, _, _)
ArgMaxLastFrom(values, k, b) ==
    IF k > Len(values) THEN b
    ELSE ArgMaxLastFrom(values, k + 1, IF values[k] >= values[b] THEN k ELSE b)

idxmax_last(labels, values) == labels[ArgMaxLastFrom(values, 2, 1)]

idxmax(labels, values) == labels[ArgMaxFrom(values, 2, 1)]

\* Number of rows with Net_Income < 0.
RECURSIVE CountNegative(_)
CountNegative(s) ==
    IF s = <<>> THEN 0
    ELSE (IF Head(s) < 0 THEN 1 ELSE 0) + CountNegative(Tail(s))

\* get_financial_summary.  object_argmax tells whether the installed pandas
\* reduces the object-typed totals of a frame without rows (read_csv types
\* the columns of a header-only file as object) or raises TypeError.
get_financial_summary(df, object_argmax) ==
    IF ~HasColumns(df, {"Income", "Total_Expenses", "Savings", "Investments"})
    THEN Raised("KeyError")
    ELSE
    LET total_income == ColumnSum(df, "Income")
        total_expenses == ColumnSum(df, "Total_Expenses")
        total_savings == ColumnSum(df, "Savings")
        total_investments == ColumnSum(df, "Investments")
        net_income == total_income - total_expenses
        rate == actual_savings_rate(total_savings, net_income)
        trad == traditional_savings_rate(total_savings, total_income)
    IN  IF rate.outcome = "raised" THEN rate
        ELSE IF trad.outcome = "raised" THEN trad
        ELSE IF ~HasColumns(df, {"Net_Income"}) THEN Raised("KeyError")
        ELSE IF ~HasColumns(df, ExpenseSet) THEN Raised("KeyError")
        ELSE IF Len(df.rows) = 0 /\ ~object_argmax THEN Raised("TypeError")
        ELSE Returned(
            [total_income |-> total_income,
             total_expenses |-> total_expenses,
             total_savings |-> total_savings,
             total_investments |-> total_investments,
             net_income |-> net_income,
             average_monthly_income |-> ColumnMean(df, "Income"),
             average_monthly_expenses |-> ColumnMean(df, "Total_Expenses"),
             average_monthly_savings |-> ColumnMean(df, "Savings"),
             savings_rate |-> rate.value,
             traditional_savings_rate |-> trad.value,
             months_in_deficit |-> CountNegative(Column(df, "Net_Income")),
             largest_expense_category |->
                 idxmax(expense_columns,
                        [k \in DOMAIN expense_columns |->
                            ColumnSum(df, expense_columns[k])])])

---------------------------------------------------------------------------
(* generate_financial_advice                                               *)

models_to_try ==
    <<"gemini-2.0-flash-exp", "gemini-1.5-flash", "gemini-pro",
      "gemini-1.5-pro">>

ModelSet == {models_to_try[i] : i \in DOMAIN models_to_try}

\* Lines 276-297: the templated text, as the summary fields it is built from.
FallbackText(data_summary) ==
    [source |-> "fallback",
     overspending |-> data_summary.net_income < 0,
     deficit |-> Abs(data_summary.net_income),
     months_in_deficit |-> data_summary.months_in_deficit,
     largest_expense_category |-> data_summary.largest_expense_category,
     target |-> Abs(data_summary.net_income) + 10000]

\* One pass of the loop body: the model called and whether the call raised.
Attempt(model, failing) == [model |-> model, raised |-> model \in failing]

\* Lines 266-273: the loop over the models from position k on; failing is the
\* set of models whose call raises.  attempts lists the calls made so far.
RECURSIVE TryModels(_, _, _, _)
TryModels(data_summary, failing, k, attempts) ==
    IF k > Len(models_to_try)
    THEN [text |-> FallbackText(data_summary), attempts |-> attempts]
    ELSE IF models_to_try[k] \in failing
         THEN TryModels(data_summary, failing, k + 1,
                        Append(attempts, Attempt(models_to_try[k], failing)))
         ELSE [text |-> [source |-> "model", model |-> models_to_try[k]],
               attempts |-> Append(attempts,
                                   Attempt(models_to_try[k], failing))]

\* A loop that keeps the text of a model that answered and goes on to the
\* next model instead of returning.
RECURSIVE TryAllModels(_, _, _, _, _)
TryAllModels(data_summary, failing, k, attempts, text) ==
    IF k > Len(models_to_try)
    THEN [text |-> text, attempts |-> attempts]
    ELSE TryAllModels(data_summary, failing, k + 1,
                      Append(attempts, Attempt(models_to_try[k], failing)),
                      IF models_to_try[k] \in failing THEN text
                      ELSE [source |-> "model", model |-> models_to_try[k]])

generate_financial_advice_no_return(data_summary, user_question, failing) ==
    TryAllModels(data_summary, failing, 1, <<>>, FallbackText(data_summary))

generate_financial_advice(data_summary, user_question, failing) ==
    TryModels(data_summary, failing, 1, <<>>)

---------------------------------------------------------------------------
(* Requests and files.                                                     *)

\* str.endswith on file names kept as sequences of characters.
endswith(name, suffix) ==
    /\ Len(name) >= Len(suffix)
    /\ SubSeq(name, Len(name) - Len(suffix) + 1, Len(name)) = suffix

DotCsv == <<".", "c", "s", "v">>

\* A row with every column.
MkRow(month, income, total_expenses, savings, investments, net_income, cats) ==
    [c \in AllColumns |->
        CASE c = "Month" -> StrCell(month)
          [] c = "Income" -> income
          [] c = "Total_Expenses" -> total_expenses
          [] c = "Savings" -> savings
          [] c = "Investments" -> investments
          [] c = "Net_Income" -> net_income
          [] OTHER -> cats[c]]

\* The content of a CSV file that parses: its header and its rows.
CsvFile(columns, rows) ==
    [readable |-> TRUE, columns |-> columns,
     rows |-> [i \in DOMAIN rows |-> [c \in columns |-> rows[i][c]]]]

\* A file pd.read_csv cannot read (missing, empty or malformed).
Unreadable == [readable |-> FALSE]

\* pd.read_csv: a new frame holding the file's table, or an exception.
read_csv(content, id) ==
    IF ~content.readable THEN Raised("ParserError")
    ELSE Returned([id |-> id, columns |-> content.columns,
                   rows |-> content.rows])

SeqsUpTo(S, n) == UNION {[1..k -> S] : k \in 0..n}

Cats(a, x, b, y) ==
    [c \in ExpenseSet |-> IF c = a THEN x ELSE IF c = b THEN y ELSE 0]

\* Files offered to the upload and load_sample routes.
AppRows ==
    {MkRow(m, 2, 1, 1, 1, 1, Cats("Rent", 1, "Rent", 1)) :
        m \in {"2024-01", "2024-02", "not-a-date"}}

AppRow == MkRow("2024-01", 2, 1, 1, 1, 1, Cats("Rent", 1, "Rent", 1))

\* Unreadable files, files with every column, and one-row files whose header
\* lacks a column.
AppFiles ==
    {Unreadable} \cup
    {CsvFile(AllColumns, rs) : rs \in SeqsUpTo(AppRows, MaxRows)} \cup
    {CsvFile(AllColumns \ {c}, <<AppRow>>) :
        c \in {"Month", "Rent", "Net_Income"}}

FileNames ==
    {<<>>, <<"a", ".", "c", "s", "v">>, <<"a", ".", "t", "x", "t">>,
     <<"c", "s", "v">>}

UploadRequests ==
    {[route |-> "upload", has_file |-> FALSE]} \cup
    {[route |-> "upload", has_file |-> TRUE, filename |-> f, content |-> c] :
        f \in {n \in FileNames : endswith(n, DotCsv)}, c \in AppFiles} \cup
    {[route |-> "upload", has_file |-> TRUE, filename |-> f,
      content |-> Unreadable] :
        f \in {n \in FileNames : ~endswith(n, DotCsv)}}

ChatBodies ==
    {[json |-> FALSE], [json |-> TRUE, question |-> ""],
     [json |-> TRUE, question |-> "How can I save more?"]}

---------------------------------------------------------------------------
(* The engine operations a request runs, in call order.                    *)

AnalyzeOps ==
    <<"income_trend", "expense_breakdown", "monthly_expenses",
      "savings_analysis", "net_income_trend", "summary">>

Ops == {"init", "advice"} \cup {AnalyzeOps[i] : i \in DOMAIN AnalyzeOps}

NoCalls == [op \in Ops |-> NotCalled]

\* Position of the first result that raised, 0 when none did.
FirstRaise(results) ==
    IF \E i \in DOMAIN results : results[i].outcome = "raised"
    THEN CHOOSE i \in DOMAIN results :
            /\ results[i].outcome = "raised"
            /\ \A j \in 1..(i - 1) : results[j].outcome # "raised"
    ELSE 0

OpIndex(op) ==
    IF \E i \in DOMAIN AnalyzeOps : AnalyzeOps[i] = op
    THEN CHOOSE i \in DOMAIN AnalyzeOps : AnalyzeOps[i] = op
    ELSE 0

Error(status, message) == [status |-> status, error |-> message]

---------------------------------------------------------------------------
(* Request handlers.                                                       *)

\* A handler that skips the check for missing data.
no_data_unchecked(cd) == FALSE

\* Lines 334 and 357: current_data is None.
no_data(cd) == cd = None

\* An except branch that drops the dataset held so far.
on_read_error_reset(cd) == None

\* Lines 325-326 and 382-383: the except branch does not touch the global.
on_read_error(cd) == cd

\* POST /upload
UploadFile(req) ==
    /\ request' = req
    /\ calls' = NoCalls
    /\ IF ~req.has_file
       THEN /\ response' = Error(400, "No file uploaded")
            /\ UNCHANGED <<current_data, next_id>>
       ELSE IF req.filename = <<>>
       THEN /\ response' = Error(400, "No file selected")
            /\ UNCHANGED <<current_data, next_id>>
       ELSE IF endswith(req.filename, DotCsv)
       THEN LET r == read_csv(req.content, next_id)
            IN  IF r.outcome = "returned"
                THEN /\ next_id <= MaxLoads
                     /\ current_data' = r.value
                     /\ next_id' = next_id + 1
                     /\ response' = [status |-> 200,
                                     message |-> "File uploaded successfully",
                                     rows |-> Len(r.value.rows)]
                ELSE /\ current_data' = on_read_error(current_data)
                     /\ next_id' = next_id
                     /\ response' = Error(400, "Error reading CSV file")
       ELSE /\ response' = Error(400, "Please upload a CSV file")
            /\ UNCHANGED <<current_data, next_id>>

\* GET /load_sample: content is what financial_data.csv holds.
LoadSampleData(content) ==
    /\ request' = [route |-> "load_sample", content |-> content]
    /\ calls' = NoCalls
    /\ LET r == read_csv(content, next_id)
       IN  IF r.outcome = "returned"
           THEN /\ next_id <= MaxLoads
                /\ current_data' = r.value
                /\ next_id' = next_id + 1
                /\ response' = [status |-> 200,
                                message |-> "Sample data loaded successfully",
                                rows |-> Len(r.value.rows)]
           ELSE /\ current_data' = on_read_error(current_data)
                /\ next_id' = next_id
                /\ response' = Error(500, "Error loading sample data")

\* Lines 340-351: the six builders ran in order up to the first that raised.
AnalysisCalls(id, results, fr) ==
    [op \in Ops |->
        IF op = "init" THEN Returned(id)
        ELSE IF OpIndex(op) = 0 THEN NotCalled
        ELSE IF fr = 0 \/ OpIndex(op) <= fr THEN results[OpIndex(op)]
        ELSE NotCalled]

AnalysisResponse(results, fr) ==
    IF fr = 0
    THEN [status |-> 200,
          analysis |-> [income_trend |-> results[1].value,
                        expense_breakdown |-> results[2].value,
                        monthly_expenses |-> results[3].value,
                        savings_analysis |-> results[4].value,
                        net_income_trend |-> results[5].value,
                        summary |-> results[6].value]]
    ELSE Error(500, "Error analyzing data")

\* GET /analyze
AnalyzeData(object_argmax) ==
    /\ request' = [route |-> "analyze"]
    /\ UNCHANGED next_id
    /\ IF no_data(current_data)
       THEN /\ response' = Error(400, "No data available")
            /\ calls' = NoCalls
            /\ UNCHANGED current_data
       ELSE \E analyzer \in {FinancialAnalyzer(current_data)} :
            IF analyzer.outcome = "raised"
            THEN /\ response' = Error(500, "Error analyzing data")
                 /\ calls' = [NoCalls EXCEPT !["init"] = analyzer]
                 /\ UNCHANGED current_data
            ELSE \E results \in
                       {<<get_income_trend(analyzer.value),
                          get_expense_breakdown(analyzer.value),
                          get_monthly_expenses(analyzer.value),
                          get_savings_analysis(analyzer.value),
                          get_net_income_trend(analyzer.value),
                          get_financial_summary(analyzer.value,
                                                object_argmax)>>} :
                 \E fr \in {FirstRaise(results)} :
                     /\ current_data' = analyzer.value
                     /\ calls' = AnalysisCalls(analyzer.value.id, results, fr)
                     /\ response' = AnalysisResponse(results, fr)

\* POST /chat.  failing: the models whose call raises; bad_body: the status
\* the framework answers a body that is not JSON with.
Chat(body, failing, object_argmax, bad_body) ==
    /\ request' = [route |-> "chat", body |-> body]
    /\ UNCHANGED next_id
    /\ IF no_data(current_data)
       THEN /\ response' = Error(400, "No data available")
            /\ calls' = NoCalls
            /\ UNCHANGED current_data
       ELSE IF ~body.json
       THEN /\ response' = Error(bad_body, "Body is not JSON")
            /\ calls' = NoCalls
            /\ UNCHANGED current_data
       ELSE IF body.question = ""
       THEN /\ response' = Error(400, "No question provided")
            /\ calls' = NoCalls
            /\ UNCHANGED current_data
       ELSE \E analyzer \in {FinancialAnalyzer(current_data)} :
            IF analyzer.outcome = "raised"
            THEN /\ response' = Error(500, "Error generating response")
                 /\ calls' = [NoCalls EXCEPT !["init"] = analyzer]
                 /\ UNCHANGED current_data
            ELSE \E summary \in
                       {get_financial_summary(analyzer.value, object_argmax)} :
                 /\ current_data' = analyzer.value
                 /\ IF summary.outcome = "raised"
                    THEN /\ response' = Error(500, "Error generating response")
                         /\ calls' =
                              [NoCalls EXCEPT
                                  !["init"] = Returned(analyzer.value.id),
                                  !["summary"] = summary]
                    ELSE \E advice \in
                               {generate_financial_advice(
                                    summary.value, body.question, failing)} :
                         /\ response' = [status |-> 200,
                                         response |-> advice.text]
                         /\ calls' =
                              [NoCalls EXCEPT
                                  !["init"] = Returned(analyzer.value.id),
                                  !["summary"] = summary,
                                  !["advice"] = Returned(advice)]

BadBodyStatuses == {400, 415, 500}

Ident(cd) == IF cd = None THEN 0 ELSE cd.id

\* No analyze request is being served step by step.
Idle == [pc |-> "idle", df |-> None, results |-> <<>>, held |-> {}]

---------------------------------------------------------------------------
(* The application: the process starts without data and serves requests.   *)

Init ==
    /\ current_data = None
    /\ next_id = 1
    /\ request = [route |-> "none"]
    /\ response = [status |-> 0]
    /\ calls = NoCalls
    /\ inflight = Idle

\* The inputs of a chat request that the handler's path can read: the models
\* are called only for a question, the framework's status only answers a
\* body that is not JSON, and the pandas build matters only without rows.
FailingChoices(body) ==
    IF body.json /\ body.question # "" THEN SUBSET ModelSet ELSE {{}}

BadBodyChoices(body) == IF body.json THEN {400} ELSE BadBodyStatuses

ObjectArgmaxChoices(cd) ==
    IF cd # None /\ Len(cd.rows) = 0 THEN BOOLEAN ELSE {TRUE}

Next ==
    \/ \E req \in UploadRequests : UploadFile(req) /\ UNCHANGED inflight
    \/ \E content \in AppFiles :
            LoadSampleData(content) /\ UNCHANGED inflight
    \/ \E object_argmax \in ObjectArgmaxChoices(current_data) :
            AnalyzeData(object_argmax) /\ UNCHANGED inflight
    \/ \E body \in ChatBodies :
         \E failing \in FailingChoices(body),
            object_argmax \in ObjectArgmaxChoices(current_data),
            bad_body \in BadBodyChoices(body) :
                Chat(body, failing, object_argmax, bad_body)
                    /\ UNCHANGED inflight

Spec == Init /\ [][Next]_vars

---------------------------------------------------------------------------
(* The engine over a loaded dataset: the process right after a successful  *)
(* upload of one of the files below, serving analyze and chat requests.    *)

RateRows ==
    {MkRow("2024-01", i, e, sv, 1, i - e, Cats("Rent", 1, "Rent", 1)) :
        i \in 0..2, e \in {0, 2}, sv \in 0..1}

VaryingCategories == {"Rent", "Utilities", "Groceries", "Subscriptions"}

CategoryRows ==
    {MkRow("2024-01", 2, 1, 1, 1, 1,
           [c \in ExpenseSet |-> IF c \in VaryingCategories THEN v[c] ELSE 0]) :
        v \in [VaryingCategories -> {0, 1}]}

PeriodRows ==
    {MkRow(m, 2, e, 1, 1, n, Cats("Rent", 1, "Rent", 1)) :
        m \in {"2023-12", "2024-01", "2024-02"}, e \in {1, 3},
        n \in {-1, 1}}

CsvName == <<"a", ".", "c", "s", "v">>

\* The state a successful upload of the file leaves a fresh process in.
Uploaded(content) ==
    /\ current_data = read_csv(content, 1).value
    /\ next_id = 2
    /\ request = [route |-> "upload", has_file |-> TRUE,
                  filename |-> CsvName, content |-> content]
    /\ response = [status |-> 200,
                   message |-> "File uploaded successfully",
                   rows |-> Len(content.rows)]
    /\ calls = NoCalls
    /\ inflight = Idle

InitEngine ==
    \E k \in 0..MaxRows :
        \/ \E rs \in [1..k -> RateRows] : Uploaded(CsvFile(AllColumns, rs))
        \/ \E rs \in [1..k -> CategoryRows] :
                Uploaded(CsvFile(AllColumns, rs))
        \/ \E rs \in [1..k -> PeriodRows] :
                \E cs \in {AllColumns, AllColumns \ {"Net_Income"}} :
                    Uploaded(CsvFile(cs, rs))

Question == [json |-> TRUE, question |-> "How can I save more?"]

NextEngine ==
    \/ \E object_argmax \in ObjectArgmaxChoices(current_data) :
            AnalyzeData(object_argmax) /\ UNCHANGED inflight
    \/ \E failing \in {{}, ModelSet},
          object_argmax \in ObjectArgmaxChoices(current_data) :
            Chat(Question, failing, object_argmax, 400) /\ UNCHANGED inflight

SpecEngine == InitEngine /\ [][NextEngine]_vars

---------------------------------------------------------------------------
(* One analyze request served statement by statement while load requests   *)
(* are served by other threads.  inflight.df is the frame object the       *)
(* analyzer refers to, inflight.results the builders' results so far and   *)
(* inflight.held the frame objects current_data referred to since the      *)
(* request began.                                                          *)

FileA ==
    CsvFile(AllColumns,
            <<MkRow("2024-01", 3, 2, 1, 1, 1,
                    Cats("Rent", 1, "Groceries", 1))>>)

FileB ==
    CsvFile(AllColumns,
            <<MkRow("2024-02", 5, 3, 2, 0, 2,
                    Cats("Utilities", 3, "Utilities", 3))>>)

ConcurrentFiles ==
    {Unreadable, FileA, FileB,
     CsvFile(AllColumns \ {"Net_Income"}, <<AppRow>>),
     CsvFile(AllColumns, <<MkRow("not-a-date", 1, 1, 1, 1, 1,
                                 Cats("Rent", 1, "Rent", 1))>>)}

ConcurrentUploads ==
    {req \in UploadRequests : req.has_file => req.content \in ConcurrentFiles}

\* The frame a builder reads: the analyzer's own reference, never the global.
self_df_global(analyzer_df, cd) == cd

self_df(analyzer_df, cd) == analyzer_df

\* Series.dt on the Month column: only a datetime column has the accessor.
dt_accessor(df) ==
    IF "Month" \notin df.columns THEN Raised("KeyError")
    ELSE IF \E i \in DOMAIN df.rows : df.rows[i]["Month"].kind # "ts"
         THEN Raised("AttributeError")
    ELSE Returned(df)

\* The k-th builder of the analysis dictionary, called on frame df.
call_builder(k, df, object_argmax) ==
    IF df = None THEN Raised("TypeError")
    ELSE IF k \in {1, 3, 4, 5} /\ dt_accessor(df).outcome = "raised"
         THEN dt_accessor(df)
    ELSE CASE k = 1 -> get_income_trend(df)
           [] k = 2 -> get_expense_breakdown(df)
           [] k = 3 -> get_monthly_expenses(df)
           [] k = 4 -> get_savings_analysis(df)
           [] k = 5 -> get_net_income_trend(df)
           [] k = 6 -> get_financial_summary(df, object_argmax)

\* The request keeps track of the frames current_data refers to meanwhile.
Observe(fl, cd) ==
    IF fl.pc \in {"idle", "done"} THEN fl
    ELSE [fl EXCEPT !.held = @ \cup {Ident(cd)}]

\* Line 334: the None check of a new analyze request.
AnalyzeBegin ==
    /\ inflight.pc \in {"idle", "done"}
    /\ UNCHANGED <<current_data, next_id>>
    /\ IF no_data(current_data)
       THEN /\ request' = [route |-> "analyze"]
            /\ response' = Error(400, "No data available")
            /\ calls' = NoCalls
            /\ inflight' = [Idle EXCEPT !.pc = "done"]
       ELSE /\ inflight' = [Idle EXCEPT !.pc = "construct",
                                        !.held = {Ident(current_data)}]
            /\ UNCHANGED <<request, response, calls>>

\* Lines 338 and 52: the argument is read from the global, self.df binds it.
AnalyzeConstruct ==
    /\ inflight.pc = "construct"
    /\ inflight' = [inflight EXCEPT !.pc = "parse", !.df = current_data]
    /\ UNCHANGED <<current_data, next_id, request, response, calls>>

\* Line 53: the Month column of the analyzer's frame object is replaced;
\* current_data shows it when it still refers to that object.
AnalyzeParse ==
    /\ inflight.pc = "parse"
    /\ UNCHANGED next_id
    /\ \E analyzer \in {FinancialAnalyzer(inflight.df)} :
        IF analyzer.outcome = "raised"
        THEN /\ request' = [route |-> "analyze"]
             /\ response' = Error(500, "Error analyzing data")
             /\ calls' = [NoCalls EXCEPT !["init"] = analyzer]
             /\ inflight' = [inflight EXCEPT !.pc = "done"]
             /\ UNCHANGED current_data
        ELSE /\ inflight' = [inflight EXCEPT !.pc = "build",
                                             !.df = analyzer.value]
             /\ current_data' =
                    IF Ident(current_data) = analyzer.value.id
                    THEN analyzer.value ELSE current_data
             /\ UNCHANGED <<request, response, calls>>

\* Lines 341-346: the next builder runs; line 350 when it raises.
AnalyzeBuild(object_argmax) ==
    /\ inflight.pc = "build"
    /\ Len(inflight.results) < Len(AnalyzeOps)
    /\ UNCHANGED <<current_data, next_id>>
    /\ \E result \in {call_builder(Len(inflight.results) + 1,
                                   self_df(inflight.df, current_data),
                                   object_argmax)} :
       \E results \in {Append(inflight.results, result)} :
        IF result.outcome = "raised"
        THEN /\ request' = [route |-> "analyze"]
             /\ response' = AnalysisResponse(results, Len(results))
             /\ calls' = AnalysisCalls(inflight.df.id, results, Len(results))
             /\ inflight' = [inflight EXCEPT !.pc = "done",
                                             !.results = results]
        ELSE /\ inflight' = [inflight EXCEPT !.results = results]
             /\ UNCHANGED <<request, response, calls>>

\* Line 349: the six results are returned.
AnalyzeRespond ==
    /\ inflight.pc = "build"
    /\ Len(inflight.results) = Len(AnalyzeOps)
    /\ request' = [route |-> "analyze"]
    /\ response' = AnalysisResponse(inflight.results, 0)
    /\ calls' = AnalysisCalls(inflight.df.id, inflight.results, 0)
    /\ inflight' = [inflight EXCEPT !.pc = "done"]
    /\ UNCHANGED <<current_data, next_id>>

NextConcurrent ==
    \/ \E req \in ConcurrentUploads :
            UploadFile(req) /\ inflight' = Observe(inflight, current_data')
    \/ \E content \in ConcurrentFiles :
            LoadSampleData(content)
                /\ inflight' = Observe(inflight, current_data')
    \/ AnalyzeBegin
    \/ AnalyzeConstruct
    \/ AnalyzeParse
    \/ \E object_argmax \in ObjectArgmaxChoices(inflight.df) :
            AnalyzeBuild(object_argmax)
    \/ AnalyzeRespond

SpecConcurrent == Init /\ [][NextConcurrent]_vars

---------------------------------------------------------------------------
(* Properties.                                                             *)

Position(c) == CHOOSE k \in DOMAIN expense_columns : expense_columns[k] = c

Total(c) == ColumnSum(current_data, c)

RequiredColumns == AllColumns \ {"Net_Income"}

\* A table the loader of the specification accepts: every required column
\* and a parseable period in every row.
SchemaValid(t) ==
    /\ RequiredColumns \subseteq t.columns
    /\ \A i \in DOMAIN t.rows :
           ParseCell(t.rows[i]["Month"]).outcome = "returned"

\* The request reached pd.read_csv.
ReachesReadCsv(req) ==
    \/ req.route = "load_sample"
    \/ /\ req.route = "upload"
       /\ req.has_file
       /\ req.filename # <<>>
       /\ endswith(req.filename, DotCsv)

LoadSucceeded(req, resp) == ReachesReadCsv(req) /\ resp.status = 200

\* C1: whenever get_financial_summary returns, savings_rate is
\* (total_savings / net_income) * 100 for net_income = total_income -
\* total_expenses > 0 and 0 otherwise, traditional_savings_rate is
\* (total_savings / total_income) * 100 for total_income > 0 and 0
\* otherwise, both are finite numbers, and the summary never fails with a
\* division error.
C1_GuardedRates ==
    LET s == calls["summary"]
    IN  /\ s.outcome = "raised" => s.exc # "ZeroDivisionError"
        /\ s.outcome = "returned" =>
             LET ti == Total("Income")
                 te == Total("Total_Expenses")
                 ts == Total("Savings")
             IN  /\ s.value.net_income = ti - te
                 /\ s.value.savings_rate =
                      IF ti - te > 0 THEN Frac(ts * 100, ti - te) ELSE Zero
                 /\ s.value.traditional_savings_rate =
                      IF ti > 0 THEN Frac(ts * 100, ti) ELSE Zero
                 /\ s.value.savings_rate.den > 0
                 /\ s.value.traditional_savings_rate.den > 0

\* A summary over a dataset that spends more than it earns and still saves:
\* the rate on net income is 0, the rate on income is not.
C1_Witness ==
    /\ calls["summary"].outcome = "returned"
    /\ calls["summary"].value.net_income < 0
    /\ calls["summary"].value.total_savings > 0
    /\ calls["summary"].value.savings_rate = Zero
    /\ calls["summary"].value.traditional_savings_rate.num > 0

\* C2 as claimed: an analyze or chat request leaves the held dataset,
\* its Month column included, exactly as it was.
C2_NeverMutated ==
    [][request'.route \in {"analyze", "chat"} => current_data' = current_data]_vars

\* C3 as claimed: a load of a table with an unparseable Month or without a
\* required column fails and leaves the current dataset as it was.
C3_FailFast ==
    [][(/\ ReachesReadCsv(request')
        /\ request'.content.readable
        /\ ~SchemaValid(request'.content))
       => (response'.status # 200 /\ current_data' = current_data)]_vars

\* C4: a successful load makes the file's table, in a new frame, the current
\* dataset; every other request (a failed load, analyze, chat) leaves the
\* identity of the current dataset unchanged, and an analyzer is built over
\* the frame that was current.
C4_LatestLoad ==
    [][IF LoadSucceeded(request', response')
       THEN /\ current_data' = [id |-> next_id,
                                columns |-> request'.content.columns,
                                rows |-> request'.content.rows]
            /\ Ident(current_data') # Ident(current_data)
       ELSE /\ Ident(current_data') = Ident(current_data)
            /\ calls'["init"].outcome = "returned"
                   => calls'["init"].value = Ident(current_data)]_vars

\* A failed load_sample after the second successful load: the second frame
\* is still the current one.
C4_Witness ==
    /\ request.route = "load_sample"
    /\ response.status = 500
    /\ Ident(current_data) = 2

\* C5 as claimed: on a dataset without rows no engine operation returns a
\* result.
C5_EmptyFails ==
    (current_data # None /\ Len(current_data.rows) = 0)
        => \A k \in DOMAIN AnalyzeOps : calls[AnalyzeOps[k]].outcome # "returned"

\* C6: while current_data is None no analyzer is built, no chart, summary
\* or advice is produced, and an analyze or chat request is answered with
\* the 400 failure.
C6_NoDataNoEngine ==
    current_data = None =>
        /\ \A op \in Ops : calls[op] = NotCalled
        /\ request.route \in {"analyze", "chat"} =>
               (response.status = 400 /\ "error" \in DOMAIN response)

\* A chat request with a question, served while no dataset was ever loaded.
C6_Witness ==
    /\ current_data = None
    /\ request.route = "chat"
    /\ request.body.json
    /\ request.body.question # ""
    /\ response.status = 400

\* C7 as claimed: the income trend lists the rows in the stable
\* chronological order of their periods, each y the income of its row.
C7_Chronological ==
    calls["income_trend"].outcome = "returned" =>
        LET rows == current_data.rows
            n == Len(rows)
            v == calls["income_trend"].value
            key(i) == ChronKey(rows[i]["Month"])
        IN  \E p \in [1..n -> 1..n] :
                /\ \A i, j \in 1..n :
                       i < j => \/ key(p[i]) < key(p[j])
                                \/ key(p[i]) = key(p[j]) /\ p[i] < p[j]
                /\ \A i \in 1..n :
                       /\ v.x[i] = strftime(rows[p[i]]["Month"])
                       /\ v.y[i] = rows[p[i]]["Income"]

\* C8 as claimed: each y of the net income trend is the row's Income minus
\* its Total_Expenses.
C8_Recomputed ==
    calls["net_income_trend"].outcome = "returned" =>
        \A i \in DOMAIN current_data.rows :
            calls["net_income_trend"].value.y[i] =
                current_data.rows[i]["Income"]
                    - current_data.rows[i]["Total_Expenses"]

\* C9 as claimed: the summary of a dataset with rows succeeds with or
\* without a Net_Income column, and months_in_deficit counts the rows with
\* a negative Net_Income, recomputed per row when the column is absent.
C9_DeficitCount ==
    (/\ request.route = "chat"
     /\ calls["init"].outcome = "returned"
     /\ Len(current_data.rows) > 0
     /\ RequiredColumns \subseteq current_data.columns)
    => /\ calls["summary"].outcome = "returned"
       /\ calls["summary"].value.months_in_deficit =
            IF "Net_Income" \in current_data.columns
            THEN CountNegative(Column(current_data, "Net_Income"))
            ELSE CountNegative(
                    [i \in DOMAIN current_data.rows |->
                        current_data.rows[i]["Income"]
                            - current_data.rows[i]["Total_Expenses"]])

\* C10: over a dataset with rows, largest_expense_category is one of the 11
\* categories, no category has a larger total, and every category with the
\* same total comes later in the fixed order.
C10_LargestCategory ==
    (calls["summary"].outcome = "returned" /\ Len(current_data.rows) > 0) =>
        LET name == calls["summary"].value.largest_expense_category
        IN  /\ name \in ExpenseSet
            /\ \A c \in ExpenseSet :
                   /\ Total(c) <= Total(name)
                   /\ Total(c) = Total(name) => Position(name) <= Position(c)

\* Utilities and Groceries share the largest total, above Rent: the first of
\* the two is named.
C10_Witness ==
    /\ calls["summary"].outcome = "returned"
    /\ Len(current_data.rows) > 0
    /\ calls["summary"].value.largest_expense_category = "Utilities"
    /\ Total("Groceries") = Total("Utilities")
    /\ Total("Rent") < Total("Utilities")

\* C11: the advice generator calls the models in the order of models_to_try,
\* each one only after all earlier calls raised; the text of the first model
\* that answers is returned and no later model is called; when all four
\* raise, the text is the fallback built from the summary alone.  Every chat
\* request that got a summary ends with a text after at most four calls.
C11_FirstSuccessWins ==
    LET a == calls["advice"]
    IN  /\ (request.route = "chat" /\ calls["summary"].outcome = "returned")
               => a.outcome = "returned"
        /\ a.outcome = "returned" =>
             LET att == a.value.attempts
                 n == Len(att)
             IN  /\ n >= 1
                 /\ n <= Len(models_to_try)
                 /\ \A i \in 1..n : att[i].model = models_to_try[i]
                 /\ \A i \in 1..(n - 1) : att[i].raised
                 /\ IF att[n].raised
                    THEN /\ n = Len(models_to_try)
                         /\ a.value.text =
                              FallbackText(calls["summary"].value)
                    ELSE a.value.text =
                              [source |-> "model", model |-> att[n].model]
                 /\ response.status = 200
                 /\ response.response = a.value.text

\* All four models raised and the fallback text was returned.
C11_Witness ==
    /\ calls["advice"].outcome = "returned"
    /\ Len(calls["advice"].value.attempts) = Len(models_to_try)
    /\ \A i \in DOMAIN calls["advice"].value.attempts :
           calls["advice"].value.attempts[i].raised
    /\ response.response.source = "fallback"

\* C12: while a load is interleaved with an analyze request in flight, every
\* output that request has computed is the builder's result on the one frame
\* the analyzer was constructed over, that frame is one current_data
\* referred to during the request (the one held before the load or the one
\* the load stored), a 200 response carries exactly those six outputs, and
\* past the None check the analyzer is never constructed over None.
C12_SingleDataset ==
    /\ inflight.pc \in {"parse", "build"} =>
            /\ inflight.df # None
            /\ inflight.df.id \in inflight.held
    /\ \A k \in DOMAIN inflight.results :
            /\ inflight.df # None
            /\ \E object_argmax \in BOOLEAN :
                  inflight.results[k] =
                      call_builder(k, inflight.df, object_argmax)
    /\ (inflight.pc = "done" /\ request.route = "analyze"
            /\ response.status = 200) =>
            /\ Len(inflight.results) = Len(AnalyzeOps)
            /\ response = AnalysisResponse(inflight.results, 0)
            /\ calls["init"] = Returned(inflight.df.id)
    /\ (inflight.pc = "done" /\ request.route = "analyze"
            /\ calls["init"].outcome = "raised") =>
            calls["init"].exc # "TypeError"

\* A load stored a new frame while the request was in flight, and the
\* request answered 200 from the frame held before the load.
C12_Witness ==
    /\ inflight.pc = "done"
    /\ request.route = "analyze"
    /\ response.status = 200
    /\ Len(inflight.results) = Len(AnalyzeOps)
    /\ Cardinality(inflight.held) = 2
    /\ current_data # None
    /\ current_data.id # inflight.df.id

====
